---- MODULE Spec2Model ----
(***************************************************************************)
(* The Choropleth component of ihme-ui (src/ui/choropleth/src/             *)
(* choropleth.jsx) as a state machine: the React component's props and     *)
(* state, the d3 zoom behaviour it drives (this.zoom), the zoom-control    *)
(* callbacks created by the last render, what that render streamed        *)
(* through the path generator, and one action per lifecycle method or      *)
(* event handler.  computeStackOffsets of src/utils/bar.js is a pure       *)
(* function with a specification of its own (SpecBar).                     *)
(*                                                                         *)
(* JavaScript numbers are modelled as exact rationals <<n, d>> in lowest   *)
(* terms (d > 0), with <<1, 0>>, <<-1, 0>> and <<0, 0>> for Infinity,      *)
(* -Infinity and NaN; floating-point rounding is not modelled.  Object and *)
(* array identity (the !== comparisons of componentWillReceiveProps) is    *)
(* modelled by reference numbers: a topology, a layer array and a data     *)
(* array are each a number naming the object, with the content looked up   *)
(* in a table, so that two distinct references may hold equal content.     *)
(***************************************************************************)
EXTENDS Integers, Sequences, FiniteSets, TLC

(***************************************************************************)
(* JavaScript number arithmetic, on rationals.                             *)
(***************************************************************************)
RECURSIVE GCD(_, _)
GCD(a, b) == IF b = 0 THEN a ELSE GCD(b, a % b)

Abs(x) == IF x < 0 THEN -x ELSE x

\* n / d: x / 0 is Infinity or -Infinity, 0 / 0 is NaN
Frac(n, d) ==
  LET g == GCD(Abs(n), Abs(d))
      s == IF d < 0 THEN -1 ELSE 1
  IN  IF g = 0 THEN <<0, 0>> ELSE <<(s * n) \div g, (s * d) \div g>>

NaN == <<0, 0>>

R(n) == <<n, 1>>

Mul(a, b) == Frac(a[1] * b[1], a[2] * b[2])

Div(a, b) == Frac(a[1] * b[2], a[2] * b[1])

\* Infinity + Infinity is Infinity, Infinity - Infinity is NaN
Add(a, b) ==
  IF a[2] = 0 /\ b[2] = 0
    THEN (IF a = b THEN a ELSE NaN)
    ELSE Frac(a[1] * b[2] + b[1] * a[2], a[2] * b[2])

Sub(a, b) == Add(a, <<-b[1], b[2]>>)

Less(a, b) == a[1] * b[2] < b[1] * a[2]

Max(a, b) == IF Less(a, b) THEN b ELSE a

(***************************************************************************)
(* Bounds of the model.                                                    *)
(***************************************************************************)
\* programmatic zoom commands are taken only while the scale they would set
\* stays within [1/MaxZoom, MaxZoom]
MaxZoom == 4

\* ... and is a fraction whose numerator and denominator are at most MaxTerm
MaxTerm == 2000

\* at most MaxEvents events (gestures, zoom commands, props updates) are
\* handled after mount
MaxEvents == 3

\* computeStackOffsets is given at most MaxData datum objects
MaxData == 2

InZoomRange(scale) ==
  /\ ~Less(R(MaxZoom), scale)
  /\ ~Less(scale, Frac(1, MaxZoom))
  /\ scale[1] <= MaxTerm
  /\ scale[2] <= MaxTerm

(***************************************************************************)
(* The inputs: topologies, layer descriptors, layer arrays, data arrays,   *)
(* viewports and zoom steps the caller may supply.                         *)
(***************************************************************************)
Null == <<>>

\* topology references; each is a distinct topology object
Topologies == {1, 2}

\* bounding box [[minX, minY], [maxX, maxY]] of a named object of a topology
\* (in topology 1 the land outline spans the same box as the countries, in
\* topology 2 a larger one)
ObjectBounds(topology, object) ==
  CASE topology = 1 /\ object = "countries" -> <<<<0, 0>>, <<18, 9>>>>
    [] topology = 1 /\ object = "land"      -> <<<<0, 0>>, <<18, 9>>>>
    [] topology = 2 /\ object = "countries" -> <<<<2, 2>>, <<11, 11>>>>
    [] topology = 2 /\ object = "land"      -> <<<<2, 2>>, <<11, 20>>>>

Layer(name, object, type) ==
  [name |-> name, object |-> object, type |-> type, visible |-> TRUE]

\* the layer arrays the caller passes, by reference: 1 and 2 are two arrays
\* with the same content
LayerArrays ==
  << <<Layer("countries", "countries", "feature")>>,
     <<Layer("countries", "countries", "feature")>>,
     <<Layer("countries", "countries", "feature"),
       Layer("borders", "land", "mesh")>>,
     << >> >>

LayerRefs == DOMAIN LayerArrays

Datum(id, val) == [id |-> id, val |-> val]

\* the data arrays the caller passes, by reference; the second has a
\* duplicate key
DataArrays ==
  << <<Datum(1, 10), Datum(2, 20)>>,
     <<Datum(1, 30), Datum(1, 40)>> >>

DataRefs == DOMAIN DataArrays

Widths == {20, 40}

Heights == {20, 40}

\* zoomStep: the default 1.1 and the 2.0 of the propTypes comment
ZoomSteps == {<<11, 10>>, <<2, 1>>}

\* what the pointer gesture (drag / wheel / pinch) can leave in the zoom
\* behaviour as [scale, translate].  d3 keeps the scale within its
\* scaleExtent, by default [0, Infinity]: a pinch whose two touches coincide
\* leaves the scale 0.
Gestures ==
  { [scale |-> <<1, 2>>, translate |-> <<<<0, 1>>, <<0, 1>>>>],
    [scale |-> <<3, 1>>, translate |-> <<<<-5, 1>>, <<4, 1>>>>],
    [scale |-> <<0, 1>>, translate |-> <<<<3, 1>>, <<2, 1>>>>] }

\* presimplified geometry points [x, y, z] that the visible layers stream
\* through the path generator; z is the area presimplify attached to the
\* point (Infinity for the end points of an arc)
GeometryPoints ==
  { [x |-> R(0), y |-> R(0), z |-> <<1, 0>>],
    [x |-> R(9), y |-> R(4), z |-> <<1, 4>>],
    [x |-> R(18), y |-> R(9), z |-> <<1, 9>>] }

\* the props that change together in one update
UpdateKinds ==
  { {}, {"width"}, {"height"}, {"width", "height"}, {"layers"}, {"topology"},
    {"topology", "layers"}, {"data"},
    {"topology", "layers", "width", "height", "data"} }

(***************************************************************************)
(* The helpers imported from '../../../utils'.                             *)
(***************************************************************************)
MinExtent == 1

\* the cache key of a layer: cache[layer.type][layer.name]
LayerKey(layer) == <<layer.type, layer.name>>

\* extractGeoJSON(topology, layers): one entry per (type, name) of the
\* layers; an entry is identified by the topology and object it is
\* extracted from
extractGeoJSON(topology, layers) ==
  LET keys == {LayerKey(layers[i]) : i \in DOMAIN layers}
      LastOf(k) == CHOOSE i \in DOMAIN layers :
                     /\ LayerKey(layers[i]) = k
                     /\ \A j \in DOMAIN layers : LayerKey(layers[j]) = k => j <= i
  IN  [k \in keys |-> [topology |-> topology,
                       object |-> layers[LastOf(k)].object,
                       type |-> k[1]]]

\* quickMerge({}, cache, extracted): entries of extracted over those of cache
quickMerge(cache, extracted) == extracted @@ cache

MinOf(S) == CHOOSE x \in S : \A y \in S : x <= y

MaxOf(S) == CHOOSE x \in S : \A y \in S : y <= x

\* bounding box over all geometry of the cache; a zero-extent box for an
\* empty collection
concatAndComputeGeoJSONBounds(cache) ==
  LET boxes == {ObjectBounds(cache[k].topology, cache[k].object) : k \in DOMAIN cache}
  IN  IF boxes = {} THEN <<<<0, 0>>, <<0, 0>>>>
      ELSE << <<MinOf({b[1][1] : b \in boxes}), MinOf({b[1][2] : b \in boxes})>>,
              <<MaxOf({b[2][1] : b \in boxes}), MaxOf({b[2][2] : b \in boxes})>> >>

Extent(lo, hi) == IF Abs(hi - lo) < MinExtent THEN MinExtent ELSE Abs(hi - lo)

\* scale = 0.9 / max(dx / width, dy / height)
calcScale(width, height, bounds) ==
  LET dx == Extent(bounds[1][1], bounds[2][1])
      dy == Extent(bounds[1][2], bounds[2][2])
  IN  Div(<<9, 10>>, Max(Frac(dx, width), Frac(dy, height)))

\* the geographic point shown at the pixel centre of the viewport
calcCenterPoint(width, height, scale, translate) ==
  << Div(Sub(Frac(width, 2), translate[1]), scale),
     Div(Sub(Frac(height, 2), translate[2]), scale) >>

\* translate that puts the midpoint of bounds, or the point center, at the
\* pixel centre of the viewport
calcTranslate(width, height, scale, bounds, center) ==
  LET geometry == IF center # Null
                    THEN center
                    ELSE << Frac(bounds[1][1] + bounds[2][1], 2),
                            Frac(bounds[1][2] + bounds[2][2], 2) >>
  IN  << Sub(Frac(width, 2), Mul(scale, geometry[1])),
         Sub(Frac(height, 2), Mul(scale, geometry[2])) >>

(***************************************************************************)
(* The component.                                                          *)
(***************************************************************************)
VARIABLES
  pc,        \* lifecycle: "constructed", "rendered", "mounted", "crashed"
  props,     \* this.props
  state,     \* this.state
  zoom,      \* this.zoom: the scale and translate the d3 zoom behaviour holds
  controls,  \* the onZoomIn / onZoomOut callbacks created by the last render
  last,      \* the last handler that ran: the props it saw change, the layer
             \* keys it had extracted, for a zoom command the scale it started
             \* from, for a props update whether it wrote into the zoom
             \* behaviour and fired its event
  events,    \* the number of events handled since mount
  drawn,     \* what the last render streamed: for each geometry point the
             \* screen point the path generator emitted, or Null
  bar        \* a call of computeStackOffsets (utils/bar.js): its arguments
             \* and, once it has run, what it returned or that it threw

vars == <<pc, props, state, zoom, controls, last, events, drawn, bar>>

\* no call of computeStackOffsets
NoCall == [pc |-> "none"]

\* Choropleth.processData: keyBy(data, keyField), the last datum of a key wins
processData(data) ==
  LET keys == {data[i].id : i \in DOMAIN data}
      LastOf(k) == CHOOSE i \in DOMAIN data :
                     /\ data[i].id = k
                     /\ \A j \in DOMAIN data : data[j].id = k => j <= i
  IN  [k \in keys |-> data[LastOf(k)]]

\* createPathGenerator(scale, translate): the closure keeps the two values
createPathGenerator(scale, translate) == [scale |-> scale, translate |-> translate]

\* the point transform of the path generator (lines 136-137): where the
\* geometry point lands on screen
project(scale, translate, point) ==
  <<Add(Mul(point[1], scale), translate[1]), Add(Mul(point[2], scale), translate[2])>>

\* a transform that drops the points whose area equals the threshold
point_strict(pathGenerator, g) ==
  LET scale == pathGenerator.scale
      translate == pathGenerator.translate
      area == Div(Div(R(1), scale), scale)
      pointX == Add(Mul(g.x, scale), translate[1])
      pointY == Add(Mul(g.y, scale), translate[2])
  IN  IF Less(area, g.z) THEN <<pointX, pointY>> ELSE Null

\* point(x, y, z) of the transform (lines 133-142): what it hands to
\* this.stream.point, or Null when the point is dropped
point(pathGenerator, g) ==
  LET scale == pathGenerator.scale
      translate == pathGenerator.translate
      area == Div(Div(R(1), scale), scale)
      pointX == Add(Mul(g.x, scale), translate[1])
      pointY == Add(Mul(g.y, scale), translate[2])
  IN  IF ~Less(g.z, area) THEN <<pointX, pointY>> ELSE Null

NothingDrawn == << >>

\* renderLayers, lines 186-187 and 196, 219: the visible feature and mesh
\* layers of the layer list for which the cache holds no entry
\* cache[layer.type][layer.name]
missingEntries(p, st) ==
  LET layers == LayerArrays[p.layers]
      cached == DOMAIN st.cache
  IN  {LayerKey(layers[i]) :
         i \in {j \in DOMAIN layers :
                  /\ layers[j].visible
                  /\ layers[j].type \in {"feature", "mesh"}
                  /\ LayerKey(layers[j]) \notin cached}}

\* renderLayers throws a TypeError when it reads .features of an undefined
\* cache.feature[layer.name] (line 196), or [layer.name] of an undefined
\* cache.feature or cache.mesh (lines 196, 219)
renderThrows(p, st) ==
  \E k \in missingEntries(p, st) :
    \/ k[1] = "feature"
    \/ \A c \in DOMAIN st.cache : c[1] # k[1]

\* the lifecycle after a render: a render that throws leaves no component
afterRender(p, st, lifecycle) ==
  IF renderThrows(p, st) THEN "crashed" ELSE lifecycle

\* renderLayers: every visible layer draws its geometry with
\* this.state.pathGenerator
renderLayers(p, st) ==
  IF \E i \in DOMAIN LayerArrays[p.layers] : LayerArrays[p.layers][i].visible
    THEN [g \in GeometryPoints |-> point(st.pathGenerator, g)]
    ELSE NothingDrawn

\* this.zoom.scale(s): d3 clamps to its scaleExtent [0, Infinity]
zoomScale(s) == IF Less(s, R(0)) THEN R(0) ELSE s

\* d3.behavior.zoom(): scale 1, translate [0, 0]
d3BehaviorZoom == [scale |-> R(1), translate |-> <<R(0), R(0)>>]

\* a constructor that leaves the base scale at 1
constructor_unitBase(p) ==
  LET extractedGeoJSON == extractGeoJSON(p.topology, LayerArrays[p.layers])
      bounds == concatAndComputeGeoJSONBounds(extractedGeoJSON)
      scale == calcScale(p.width, p.height, bounds)
      translate == calcTranslate(p.width, p.height, scale, bounds, Null)
  IN  [bounds |-> bounds,
       scale |-> scale,
       scaleBase |-> R(1),
       scaleFactor |-> R(1),
       translate |-> translate,
       pathGenerator |-> createPathGenerator(scale, translate),
       cache |-> extractedGeoJSON,
       processedData |-> processData(DataArrays[p.data])]

\* the state the constructor builds
constructor(p) ==
  LET extractedGeoJSON == extractGeoJSON(p.topology, LayerArrays[p.layers])
      bounds == concatAndComputeGeoJSONBounds(extractedGeoJSON)
      scale == calcScale(p.width, p.height, bounds)
      translate == calcTranslate(p.width, p.height, scale, bounds, Null)
  IN  [bounds |-> bounds,
       scale |-> scale,
       scaleBase |-> scale,
       scaleFactor |-> R(1),
       translate |-> translate,
       pathGenerator |-> createPathGenerator(scale, translate),
       cache |-> extractedGeoJSON,
       processedData |-> processData(DataArrays[p.data])]

\* render: the Controls callbacks zoomTo(this.zoom.scale() * zoomStep) and
\* zoomTo(this.zoom.scale() / zoomStep), bound to the scale read at render time
render(z, p) ==
  [onZoomIn |-> Mul(z.scale, p.zoomStep), onZoomOut |-> Div(z.scale, p.zoomStep)]

NotRendered == [onZoomIn |-> R(0), onZoomOut |-> R(0)]

InitialProps ==
  [topology : {1}, layers : {1}, width : {40}, height : {20},
   data : {1}, zoomStep : ZoomSteps]

Init ==
  /\ pc = "constructed"
  /\ props \in InitialProps
  /\ state = constructor(props)
  /\ zoom = d3BehaviorZoom
  /\ controls = NotRendered
  /\ last = [op |-> "constructor", changed |-> {},
             extracted |-> DOMAIN state.cache]
  /\ events = 0
  /\ drawn = NothingDrawn
  /\ bar = NoCall

\* the first render, before componentDidMount
FirstRender ==
  /\ pc = "constructed"
  /\ pc' = afterRender(props, state, "rendered")
  /\ controls' = render(zoom, props)
  /\ drawn' = IF pc' = "crashed" THEN drawn ELSE renderLayers(props, state)
  /\ last' = [op |-> "render", changed |-> {}, extracted |-> {}]
  /\ UNCHANGED <<props, state, zoom, events, bar>>

componentDidMount(st) ==
  [scale |-> zoomScale(st.scale), translate |-> st.translate]

ComponentDidMount ==
  /\ pc = "rendered"
  /\ pc' = "mounted"
  /\ zoom' = componentDidMount(state)
  /\ last' = [op |-> "componentDidMount", changed |-> {}, extracted |-> {}]
  /\ UNCHANGED <<props, state, controls, events, drawn, bar>>

\* a zoomEvent that leaves scaleFactor as it was
zoomEvent_keepsFactor(st, z) ==
  [st EXCEPT !.scale = z.scale,
             !.translate = z.translate,
             !.pathGenerator = createPathGenerator(z.scale, z.translate)]

\* a zoomEvent that does not rebuild the path generator
zoomEvent_keepsPath(st, z) ==
  [st EXCEPT !.scale = z.scale,
             !.scaleFactor = Div(z.scale, st.scaleBase),
             !.translate = z.translate]

\* zoomEvent: read the behaviour's scale and translate back into state
zoomEvent(st, z) ==
  [st EXCEPT !.scale = z.scale,
             !.scaleFactor = Div(z.scale, st.scaleBase),
             !.translate = z.translate,
             !.pathGenerator = createPathGenerator(z.scale, z.translate)]

\* a drag or wheel gesture: d3 updates its scale and translate and dispatches
\* 'zoom'; the setState of zoomEvent is followed by a render
Gesture ==
  /\ pc = "mounted"
  /\ events < MaxEvents
  /\ \E z \in Gestures :
       /\ zoom' = z
       /\ state' = zoomEvent(state, z)
       /\ controls' = render(z, props)
       /\ pc' = afterRender(props, state', "mounted")
       /\ drawn' = IF pc' = "crashed" THEN drawn ELSE renderLayers(props, state')
  /\ last' = [op |-> "gesture", changed |-> {}, extracted |-> {}]
  /\ events' = events + 1
  /\ UNCHANGED <<props, bar>>

\* a zoomTo that reads the centre after it has written the new scale
zoomTo_centerAfter(scale, p, z) ==
  LET k == zoomScale(scale)
      center == calcCenterPoint(p.width, p.height, k, z.translate)
  IN  [scale |-> k,
       translate |-> calcTranslate(p.width, p.height, k, Null, center)]

\* the callback zoomTo(scale) of the controls: keep the geographic point at
\* the pixel centre, write scale and translate into the zoom behaviour
zoomTo(scale, p, z) ==
  LET center == calcCenterPoint(p.width, p.height, z.scale, z.translate)
      k == zoomScale(scale)
  IN  [scale |-> k,
       translate |-> calcTranslate(p.width, p.height, k, Null, center)]

\* a zoomReset that writes the current scale, not the base scale
zoomReset_currentScale(st, p) ==
  [scale |-> zoomScale(st.scale),
   translate |-> calcTranslate(p.width, p.height, st.scale, st.bounds, Null)]

\* what zoomReset writes into the zoom behaviour
zoomReset(st, p) ==
  [scale |-> zoomScale(st.scaleBase),
   translate |-> calcTranslate(p.width, p.height, st.scaleBase, st.bounds, Null)]

\* a click on the zoom-in control: the callback of the last render, then
\* this.zoom.event -> zoomEvent -> setState -> render
ZoomIn ==
  /\ pc = "mounted"
  /\ events < MaxEvents
  /\ InZoomRange(controls.onZoomIn)
  /\ LET z == zoomTo(controls.onZoomIn, props, zoom)
     IN  /\ zoom' = z
         /\ state' = zoomEvent(state, z)
         /\ controls' = render(z, props)
         /\ pc' = afterRender(props, state', "mounted")
         /\ drawn' = IF pc' = "crashed" THEN drawn ELSE renderLayers(props, state')
  /\ last' = [op |-> "zoomIn", changed |-> {}, extracted |-> {},
              from |-> zoom.scale]
  /\ events' = events + 1
  /\ UNCHANGED <<props, bar>>

ZoomOut ==
  /\ pc = "mounted"
  /\ events < MaxEvents
  /\ InZoomRange(controls.onZoomOut)
  /\ LET z == zoomTo(controls.onZoomOut, props, zoom)
     IN  /\ zoom' = z
         /\ state' = zoomEvent(state, z)
         /\ controls' = render(z, props)
         /\ pc' = afterRender(props, state', "mounted")
         /\ drawn' = IF pc' = "crashed" THEN drawn ELSE renderLayers(props, state')
  /\ last' = [op |-> "zoomOut", changed |-> {}, extracted |-> {},
              from |-> zoom.scale]
  /\ events' = events + 1
  /\ UNCHANGED <<props, bar>>

ZoomReset ==
  /\ pc = "mounted"
  /\ events < MaxEvents
  /\ LET z == zoomReset(state, props)
     IN  /\ zoom' = z
         /\ state' = zoomEvent(state, z)
         /\ controls' = render(z, props)
         /\ pc' = afterRender(props, state', "mounted")
         /\ drawn' = IF pc' = "crashed" THEN drawn ELSE renderLayers(props, state')
  /\ last' = [op |-> "zoomReset", changed |-> {}, extracted |-> {}]
  /\ events' = events + 1
  /\ UNCHANGED <<props, bar>>

\* a test that never finds the bounds changed
boundsDiffer_never(bounds, stateBounds) == FALSE

\* bounds !== this.state.bounds (line 83) compares the identity of two arrays,
\* and the bounds just computed are a new array: the test never fails
boundsDiffer(bounds, stateBounds) == TRUE

\* state.scale || this.state.scale: a missing, zero or NaN scale falls back
ScaleOr(partial, st) ==
  IF "scale" \in DOMAIN partial /\ partial.scale \notin {R(0), NaN}
    THEN partial.scale ELSE st.scale

TranslateOr(partial, st) ==
  IF "translate" \in DOMAIN partial THEN partial.translate ELSE st.translate

Changed(nextProps) ==
  {f \in {"topology", "layers", "width", "height", "data"} : nextProps[f] # props[f]}

\* the props a parent may pass next
NextPropsSet ==
  LET all == [topology : Topologies, layers : LayerRefs, width : Widths,
              height : Heights, data : DataRefs, zoomStep : {props.zoomStep}]
  IN  {nextProps \in all : Changed(nextProps) \in UpdateKinds}

\* line 71: the cache to extend; none of it survives a new topology
cacheFor(nextProps) ==
  IF nextProps.topology = props.topology THEN state.cache ELSE << >>

\* a filter that keeps every layer, cached or not
uncachedLayers_all(nextProps) == LayerArrays[nextProps.layers]

\* lines 73-75: the layers of nextProps.layers with no entry in that cache
uncachedLayers(nextProps) ==
  SelectSeq(LayerArrays[nextProps.layers],
            LAMBDA layer : LayerKey(layer) \notin DOMAIN cacheFor(nextProps))

\* the test of line 77 left out
extracts_noLengthTest(nextProps) ==
  \/ nextProps.topology # props.topology
  \/ nextProps.layers # props.layers

\* lines 70 and 77: something is extracted
extracts(nextProps) ==
  /\ \/ nextProps.topology # props.topology
     \/ nextProps.layers # props.layers
  /\ Len(uncachedLayers(nextProps)) > 0

\* a new cache that holds the extracted layers only, not merged with the
\* entries cached before
layersState_extractedOnly(nextProps) ==
  LET cache == extractGeoJSON(nextProps.topology, uncachedLayers(nextProps))
      bounds == concatAndComputeGeoJSONBounds(cache)
      newBounds == boundsDiffer(bounds, state.bounds)
      scale == calcScale(nextProps.width, nextProps.height, bounds)
  IN  IF ~extracts(nextProps) THEN << >>
      ELSE [cache |-> cache]
           @@ (IF newBounds THEN [bounds |-> bounds] ELSE << >>)
           @@ (IF newBounds /\ scale # state.scale THEN [scale |-> scale] ELSE << >>)

\* lines 70-92: the part of the new state built from topology and layers
layersState(nextProps) ==
  LET cache == quickMerge(cacheFor(nextProps),
                          extractGeoJSON(nextProps.topology, uncachedLayers(nextProps)))
      bounds == concatAndComputeGeoJSONBounds(cache)
      newBounds == boundsDiffer(bounds, state.bounds)
      scale == calcScale(nextProps.width, nextProps.height, bounds)
  IN  IF ~extracts(nextProps) THEN << >>
      ELSE [cache |-> cache]
           @@ (IF newBounds THEN [bounds |-> bounds] ELSE << >>)
           @@ (IF newBounds /\ scale # state.scale THEN [scale |-> scale] ELSE << >>)

\* line 95
resized(nextProps) ==
  \/ nextProps.width # props.width
  \/ nextProps.height # props.height

\* lines 96-98: the new base scale
resizeScaleBase(nextProps, partial) ==
  LET bounds == IF "bounds" \in DOMAIN partial THEN partial.bounds ELSE state.bounds
  IN  calcScale(nextProps.width, nextProps.height, bounds)

\* the centre taken in the new viewport instead of the old
resizeCenter_newViewport(nextProps) ==
  calcCenterPoint(nextProps.width, nextProps.height, zoom.scale, zoom.translate)

\* lines 101-102: the point at the centre of the old viewport, read from the
\* zoom behaviour
resizeCenter(nextProps) ==
  calcCenterPoint(props.width, props.height, zoom.scale, zoom.translate)

\* lines 95-109: scale and translate of the new state after a resize
resizeState(nextProps, partial) ==
  LET nextScale == Mul(resizeScaleBase(nextProps, partial), state.scaleFactor)
      translate == calcTranslate(nextProps.width, nextProps.height, nextScale,
                                 Null, resizeCenter(nextProps))
  IN  IF resized(nextProps)
        THEN [scale |-> nextScale, translate |-> translate] @@ partial
        ELSE partial

\* the assignment of line 106 left out
assignScaleBase_skipped(nextProps, partial) == state

\* line 106: this.state.scaleBase is assigned directly
assignScaleBase(nextProps, partial) ==
  IF resized(nextProps)
    THEN [state EXCEPT !.scaleBase = resizeScaleBase(nextProps, partial)]
    ELSE state

\* lines 112-114: Object.assign(state, ...processData(...)) spreads a plain
\* object, which is not iterable, into the arguments.  A build whose spread
\* helper falls back to Array.from spreads nothing, and Object.assign(state)
\* leaves state as it is; a build that follows the iterable protocol throws
\* a TypeError here (spreadThrows).
dataState(nextProps, partial) == partial

\* a test that takes every update for one that built new state
updates_always(partial) == TRUE

\* line 117: Object.keys(state).length, the new state has a property
updates(partial) == DOMAIN partial # {}

\* lines 117-123: what is written into the zoom behaviour
writeZoom(partial, thisState) ==
  IF updates(partial)
    THEN [scale |-> zoomScale(ScaleOr(partial, thisState)),
          translate |-> TranslateOr(partial, thisState)]
    ELSE zoom

\* componentWillReceiveProps(nextProps): the new this.state, the new scale
\* and translate of the zoom behaviour, the keys of the layers handed to
\* extractGeoJSON, whether scale and translate were written into the zoom
\* behaviour (lines 120-121), whether this.zoom.event fired (line 122), and
\* whether the handler threw
componentWillReceiveProps(nextProps, spreadThrows) ==
  LET fromLayers == layersState(nextProps)
      partial == dataState(nextProps, resizeState(nextProps, fromLayers))
      thisState == assignScaleBase(nextProps, fromLayers)
      threw == nextProps.data # props.data /\ spreadThrows
      z == writeZoom(partial, thisState)
  IN  [state |-> IF threw \/ ~updates(partial) THEN thisState
                 ELSE zoomEvent(partial @@ thisState, z),
       zoom |-> IF threw THEN zoom ELSE z,
       extracted |-> IF extracts(nextProps)
                       THEN {LayerKey(uncachedLayers(nextProps)[i]) :
                               i \in DOMAIN uncachedLayers(nextProps)}
                       ELSE {},
       wrote |-> ~threw /\ updates(partial),
       fired |-> ~threw /\ updates(partial),
       threw |-> threw]

\* a props update from the parent: componentWillReceiveProps, then React
\* installs nextProps and renders.  A handler that throws leaves the props
\* as they were and the component dead.
ComponentWillReceiveProps ==
  /\ pc = "mounted"
  /\ events < MaxEvents
  /\ events' = events + 1
  /\ UNCHANGED bar
  /\ \E nextProps \in NextPropsSet :
     \E spreadThrows \in IF nextProps.data # props.data THEN BOOLEAN ELSE {FALSE} :
       LET r == componentWillReceiveProps(nextProps, spreadThrows)
       IN  /\ state' = r.state
           /\ zoom' = r.zoom
           /\ pc' = IF r.threw THEN "crashed"
                    ELSE afterRender(nextProps, r.state, "mounted")
           /\ props' = IF r.threw THEN props ELSE nextProps
           /\ controls' = IF r.threw THEN controls ELSE render(r.zoom, nextProps)
           /\ drawn' = IF pc' = "crashed" THEN drawn
                       ELSE renderLayers(nextProps, r.state)
           /\ last' = [op |-> IF r.threw THEN "propsThrew" ELSE "props",
                       changed |-> Changed(nextProps),
                       extracted |-> r.extracted,
                       wrote |-> r.wrote,
                       fired |-> r.fired]

Next ==
  \/ FirstRender
  \/ ComponentDidMount
  \/ Gesture
  \/ ZoomIn
  \/ ZoomOut
  \/ ZoomReset
  \/ ComponentWillReceiveProps

Spec == Init /\ [][Next]_vars

(***************************************************************************)
(* Construction and mount alone, for every props the caller may construct  *)
(* the component with.                                                     *)
(***************************************************************************)
AnyProps ==
  [topology : Topologies, layers : LayerRefs, width : Widths, height : Heights,
   data : DataRefs, zoomStep : ZoomSteps]

InitMount ==
  /\ pc = "constructed"
  /\ props \in AnyProps
  /\ state = constructor(props)
  /\ zoom = d3BehaviorZoom
  /\ controls = NotRendered
  /\ last = [op |-> "constructor", changed |-> {},
             extracted |-> DOMAIN state.cache]
  /\ events = 0
  /\ drawn = NothingDrawn
  /\ bar = NoCall

NextMount ==
  \/ FirstRender
  \/ ComponentDidMount

SpecMount == InitMount /\ [][NextMount]_vars

(***************************************************************************)
(* computeStackOffsets of utils/bar.js, called with data, stacks and       *)
(* layers.  Stack and layer names are strings, modelled as sequences of    *)
(* characters; the values of the datum objects are natural numbers.        *)
(***************************************************************************)
StackNames == { <<"a">>, <<"a", ":", "b">> }

LayerNames == { <<"b">>, <<"b", ":", "b">> }

BarValues == {1, 2}

\* the datum objects: [stackField], [layerField] and [valueField] of each
BarDatums == [stack : StackNames, layer : LayerNames, value : BarValues]

\* the sequences over S of at most n elements
SeqsUpTo(S, n) == UNION {[1..m -> S] : m \in 0..n}

\* the lists of names without a repetition
NameLists(S) == {l \in SeqsUpTo(S, Cardinality(S)) :
                   \A i, j \in DOMAIN l : l[i] = l[j] => i = j}

\* computeStackDatumKey: `${stack}:${layer}`
computeStackDatumKey(stack, layer) == stack \o <<":">> \o layer

\* lines 75-78: keyBy(data, datum => computeStackDatumKey(...)), the last
\* datum of a key wins
dataByStackAndLayer(data) ==
  LET KeyOf(i) == computeStackDatumKey(data[i].stack, data[i].layer)
      LastOf(k) == CHOOSE i \in DOMAIN data :
                     /\ KeyOf(i) = k
                     /\ \A j \in DOMAIN data : KeyOf(j) = k => j <= i
  IN  [k \in {KeyOf(i) : i \in DOMAIN data} |-> data[LastOf(k)]]

\* lines 91-102: the loop over the layers of one stack, from the j-th layer
\* on; datum[valueField] of an undefined datum throws a TypeError
RECURSIVE traverseLayers(_, _, _, _, _, _)
traverseLayers(byKey, stack, layers, j, prevEnd, offsets) ==
  IF j > Len(layers) THEN [threw |-> FALSE, offsets |-> offsets]
  ELSE LET key == computeStackDatumKey(stack, layers[j])
       IN  IF key \notin DOMAIN byKey
             THEN [threw |-> TRUE, offsets |-> offsets]
             ELSE traverseLayers(byKey, stack, layers, j + 1,
                                 prevEnd + byKey[key].value,
                                 (key :> prevEnd) @@ offsets)

\* lines 85-104: the loop over the stacks, from the i-th stack on
RECURSIVE traverseStacks(_, _, _, _, _)
traverseStacks(byKey, stacks, layers, i, offsets) ==
  IF i > Len(stacks) THEN [threw |-> FALSE, offsets |-> offsets]
  ELSE LET r == traverseLayers(byKey, stacks[i], layers, 1, 0, offsets)
       IN  IF r.threw THEN r
           ELSE traverseStacks(byKey, stacks, layers, i + 1, r.offsets)

\* computeStackOffsets(data, stacks, layers, stackField, layerField,
\* valueField): the mapping it returns, or that it threw
computeStackOffsets(data, stacks, layers) ==
  LET r == traverseStacks(dataByStackAndLayer(data), stacks, layers, 1, << >>)
  IN  IF r.threw THEN [threw |-> TRUE] ELSE r

BarCalls ==
  [pc : {"called"}, data : SeqsUpTo(BarDatums, MaxData),
   stacks : NameLists(StackNames), layers : NameLists(LayerNames)]

\* no Choropleth is constructed; computeStackOffsets is about to run
InitBar ==
  /\ bar \in BarCalls
  /\ pc = "none"
  /\ props = Null
  /\ state = Null
  /\ zoom = Null
  /\ controls = Null
  /\ last = Null
  /\ events = 0
  /\ drawn = NothingDrawn

ComputeStackOffsets ==
  /\ bar.pc = "called"
  /\ bar' = [bar EXCEPT !.pc = "done"]
              @@ [result |-> computeStackOffsets(bar.data, bar.stacks, bar.layers)]
  /\ UNCHANGED <<pc, props, state, zoom, controls, last, events, drawn>>

NextBar == ComputeStackOffsets

SpecBar == InitBar /\ [][NextBar]_vars

(***************************************************************************)
(* Properties.                                                             *)
(***************************************************************************)
PropsStep(l) == l.op = "props"

ViewCenter(p) == <<Frac(p.width, 2), Frac(p.height, 2)>>

LayerKeys(layers) == {LayerKey(layers[i]) : i \in DOMAIN layers}

\* a geographic point with finite coordinates (neither Infinity nor NaN)
IsPoint(geometry) == geometry[1][2] # 0 /\ geometry[2][2] # 0

\* C1 - Reset exactness: whatever came before, zoomReset leaves state.scale
\* equal to state.scaleBase, state.scaleFactor equal to 1 and state.translate
\* equal to the bounds-fit translate calcTranslate(width, height, scaleBase,
\* bounds), and the zoom behaviour holds the same scale and translate.
C1_ResetExact ==
  last.op = "zoomReset" =>
    /\ state.scale = state.scaleBase
    /\ state.scaleFactor = R(1)
    /\ state.translate = calcTranslate(props.width, props.height, state.scaleBase,
                                       state.bounds, Null)
    /\ zoom.scale = state.scale
    /\ zoom.translate = state.translate

\* a reset taken after the view had been zoomed, panned and resized
C1_Witness ==
  /\ last.op = "zoomReset"
  /\ events = MaxEvents
  /\ props.width = 20
  /\ state.pathGenerator.scale = state.scaleBase

\* C2 - Zoom step: a zoom-in sets the scale to the scale at the moment of the
\* click times zoomStep, a zoom-out to that scale divided by zoomStep; one
\* zoom-in as the first interaction after mount gives scaleFactor = zoomStep.
C2_ZoomStep ==
  [][ /\ last'.op = "zoomIn" => state'.scale = Mul(zoom.scale, props.zoomStep)
      /\ last'.op = "zoomOut" => state'.scale = Div(zoom.scale, props.zoomStep)
      /\ (last'.op = "zoomIn" /\ events = 0) => state'.scaleFactor = props.zoomStep
    ]_vars

\* C3 - Zoom step round-trip: a zoom-out that follows a zoom-in restores the
\* scale (of state and of the zoom behaviour) the zoom-in started from.
C3_RoundTrip ==
  [][ (last.op = "zoomIn" /\ last'.op = "zoomOut") =>
        /\ state'.scale = last.from
        /\ zoom'.scale = last.from ]_vars

\* C4 - Resize no-jump: when only width and/or height change, the geographic
\* point that was at the pixel centre of the old viewport under the zoom
\* behaviour's scale/translate (there is one unless that scale is zero or
\* that translate not a number) is mapped by the new scale/translate to the
\* pixel centre of the new viewport.
C4_ResizeNoJump ==
  [][ (PropsStep(last') /\ last'.changed # {}
         /\ last'.changed \subseteq {"width", "height"}) =>
        LET center == calcCenterPoint(props.width, props.height,
                                      zoom.scale, zoom.translate)
        IN  IsPoint(center) =>
              /\ project(zoom'.scale, zoom'.translate, center) = ViewCenter(props')
              /\ project(state'.scale, state'.translate, center) = ViewCenter(props')
              /\ project(state'.pathGenerator.scale, state'.pathGenerator.translate,
                         center) = ViewCenter(props')
    ]_vars

\* a resize alone, of a view that a gesture and a zoom command had moved off
\* the fit
C4_Witness ==
  /\ PropsStep(last)
  /\ last.changed = {"width", "height"}
  /\ events = MaxEvents
  /\ state.scaleFactor \notin {R(0), R(1), <<1, 2>>, <<3, 1>>, <<3, 2>>}
  /\ IsPoint(state.translate)
  /\ state.translate # calcTranslate(props.width, props.height, state.scale,
                                     state.bounds, Null)

\* C5 - Resize preserves the zoom ratio: after a props update in which width
\* or height changes, scaleBase is the fit scale of the new viewport,
\* state.scale is that scaleBase times the scaleFactor held before, and
\* scaleFactor is what it was.
C5_ResizeKeepsRatio ==
  [][ (PropsStep(last') /\ last'.changed \cap {"width", "height"} # {}) =>
        /\ state'.scaleBase = calcScale(props'.width, props'.height, state'.bounds)
        /\ state'.scale = Mul(state'.scaleBase, state.scaleFactor)
        /\ state'.scaleFactor = state.scaleFactor ]_vars

\* a resize of a zoomed view
C5_Witness ==
  /\ PropsStep(last)
  /\ "width" \in last.changed
  /\ state.scaleFactor # R(1)
  /\ state.scaleBase = calcScale(props.width, props.height, state.bounds)
  /\ state.scaleBase # state.scale

\* C6 - Single source of truth: at every render and between any two events,
\* from construction onwards, the zoom behaviour's scale and translate equal
\* state.scale and state.translate.
C6_SingleSource ==
  pc \in {"rendered", "mounted"} =>
    /\ zoom.scale = state.scale
    /\ zoom.translate = state.translate

\* C7 - ProcessedData rebuild: after a props update in which the data array
\* changes, state.processedData maps each key of the new data array to its
\* last datum, and holds nothing of the previous array.
C7_DataRebuilt ==
  (PropsStep(last) /\ "data" \in last.changed) =>
    state.processedData = processData(DataArrays[props.data])

\* C8 - Cache monotonicity under layer growth: when the layer list changes and
\* the topology stays, every cached entry is kept unchanged and not extracted
\* again, and exactly the layers not yet cached are extracted and added.
C8_CacheMonotone ==
  [][ (PropsStep(last') /\ "layers" \in last'.changed
         /\ "topology" \notin last'.changed) =>
        /\ \A k \in DOMAIN state.cache :
             k \in DOMAIN state'.cache /\ state'.cache[k] = state.cache[k]
        /\ last'.extracted \cap DOMAIN state.cache = {}
        /\ last'.extracted = LayerKeys(LayerArrays[props'.layers]) \ DOMAIN state.cache
        /\ DOMAIN state'.cache = DOMAIN state.cache \cup last'.extracted
        /\ \A k \in last'.extracted : state'.cache[k].topology = props'.topology
    ]_vars

\* the borders layer added to a cache that holds the countries
C8_Witness ==
  /\ PropsStep(last)
  /\ last.changed = {"layers"}
  /\ last.extracted = {<<"mesh", "borders">>}
  /\ DOMAIN state.cache = {<<"feature", "countries">>, <<"mesh", "borders">>}

\* C9 - Extraction idempotence: a props update with the same topology and the
\* same viewport whose layers (possibly in a new array) are all cached
\* extracts no layer and leaves cache, bounds, scale and translate unchanged.
C9_ExtractIdempotent ==
  [][ (PropsStep(last') /\ last'.changed \subseteq {"layers", "data"}
         /\ LayerKeys(LayerArrays[props'.layers]) \subseteq DOMAIN state.cache) =>
        /\ last'.extracted = {}
        /\ state'.cache = state.cache
        /\ state'.bounds = state.bounds
        /\ state'.scale = state.scale
        /\ state'.translate = state.translate ]_vars

\* the same layers in a new array, given to a zoomed view
C9_Witness ==
  /\ PropsStep(last)
  /\ last.changed = {"layers"}
  /\ last.extracted = {}
  /\ LayerArrays[props.layers] # << >>
  /\ state.scaleFactor # R(1)
  /\ LayerKeys(LayerArrays[props.layers]) = DOMAIN state.cache

\* C10 - Bounds change detection is structural: when a layer or topology
\* change (without a resize) yields bounds equal to the previous bounds, the
\* bounds count as unchanged and no fit scale is computed: bounds, scale and
\* translate stay as they were.
C10_BoundsStructural ==
  [][ (PropsStep(last') /\ last'.changed \cap {"layers", "topology"} # {}
         /\ last'.changed \cap {"width", "height"} = {}
         /\ last'.extracted # {}
         /\ concatAndComputeGeoJSONBounds(state'.cache) = state.bounds) =>
        /\ state'.bounds = state.bounds
        /\ state'.scale = state.scale
        /\ state'.translate = state.translate ]_vars

\* C11 - Resolution culling: the point transform built for scale s and
\* translate (tx, ty) emits a presimplified point (x, y, r) if and only if
\* r >= 1 / s^2, and the screen point it emits is (x * s + tx, y * s + ty).
C11_Culling ==
  (pc \in {"rendered", "mounted"} /\ drawn # NothingDrawn) =>
    LET s == state.pathGenerator.scale
        t == state.pathGenerator.translate
    IN  \A g \in GeometryPoints :
          /\ drawn[g] # Null <=> ~Less(g.z, Div(R(1), Mul(s, s)))
          /\ drawn[g] # Null =>
               drawn[g] = <<Add(Mul(g.x, s), t[1]), Add(Mul(g.y, s), t[2])>>

\* after a gesture, a point whose area is exactly 1 / s^2 is drawn and
\* another point is dropped
C11_Witness ==
  /\ last.op = "gesture"
  /\ drawn # NothingDrawn
  /\ \E g \in GeometryPoints :
       /\ g.z = Div(R(1), Mul(state.scale, state.scale))
       /\ drawn[g] = <<Add(Mul(g.x, state.scale), state.translate[1]),
                       Add(Mul(g.y, state.scale), state.translate[2])>>
  /\ \E g \in GeometryPoints : drawn[g] = Null

\* C12 - Initial fit: after construction and mount, before any event,
\* state.scale and state.scaleBase both equal calcScale(width, height, bounds)
\* for the bounds of all extracted layers, state.scaleFactor is 1,
\* state.translate is the fit translate for that scale and those bounds, the
\* cache holds an entry for every supplied layer, and processedData maps each
\* key of the data array to its datum (the last one of that key).
C12_InitialFit ==
  events = 0 =>
    LET layers == LayerArrays[props.layers]
        data == DataArrays[props.data]
        bounds == concatAndComputeGeoJSONBounds(extractGeoJSON(props.topology, layers))
        fit == calcScale(props.width, props.height, bounds)
    IN  /\ state.bounds = bounds
        /\ state.scale = fit
        /\ state.scaleBase = fit
        /\ state.scaleFactor = R(1)
        /\ state.translate = calcTranslate(props.width, props.height, fit, bounds, Null)
        /\ DOMAIN state.cache = LayerKeys(layers)
        /\ \A k \in DOMAIN state.cache : state.cache[k].topology = props.topology
        /\ DOMAIN state.processedData = {data[i].id : i \in DOMAIN data}
        /\ \A i \in DOMAIN data :
             (\A j \in DOMAIN data : j > i => data[j].id # data[i].id) =>
               state.processedData[data[i].id] = data[i]

\* mounted with two layers of the second topology, in the tall viewport
C12_Witness ==
  /\ pc = "mounted"
  /\ events = 0
  /\ props.topology = 2
  /\ Len(LayerArrays[props.layers]) = 2
  /\ props.width = 20 /\ props.height = 40
  /\ zoom.scale = state.scaleBase

\* C13 - Pathological gesture scale is clamped: a zero, negative or
\* non-finite scale reported by the gesture is clamped to a strictly positive
\* value before the projection is rebuilt, so state.scale (and the scale the
\* path generator is built from) is strictly positive in every reachable
\* state.
C13_ScalePositive ==
  /\ Less(R(0), state.scale)
  /\ Less(R(0), state.pathGenerator.scale)

\* the value of the datum of a stack and a layer (the last such datum of
\* data), 0 when there is none
ValueOf(data, stack, layer) ==
  LET S == {i \in DOMAIN data : data[i].stack = stack /\ data[i].layer = layer}
  IN  IF S = {} THEN 0 ELSE data[CHOOSE i \in S : \A j \in S : j <= i].value

RECURSIVE SumBefore(_, _, _, _)
SumBefore(data, stack, layers, j) ==
  IF j <= 1 THEN 0
  ELSE SumBefore(data, stack, layers, j - 1) + ValueOf(data, stack, layers[j - 1])

\* C14 - computeStackOffsets returns, for every stack of stacks and every
\* layer of layers, an entry under the key `${stack}:${layer}` whose value is
\* the sum of the values of the layers that precede the layer in layers
\* within the same stack (0 for the first layer), also for the combinations
\* for which data holds no datum.
C14_StackOffsets ==
  bar.pc = "done" =>
    /\ ~bar.result.threw
    /\ \A i \in DOMAIN bar.stacks : \A j \in DOMAIN bar.layers :
         LET key == computeStackDatumKey(bar.stacks[i], bar.layers[j])
         IN  /\ key \in DOMAIN bar.result.offsets
             /\ bar.result.offsets[key] = SumBefore(bar.data, bar.stacks[i], bar.layers, j)

\* C15 - scaleBase always fits the current view: between any two events after
\* mount, state.scaleBase equals calcScale(width, height, state.bounds) of
\* the current props, also after a layer or topology change that alters the
\* bounds without a resize.
C15_BaseFits ==
  pc = "mounted" =>
    state.scaleBase = calcScale(props.width, props.height, state.bounds)

\* C16 - ViewState ratio invariant: between any two events, after any
\* sequence of gestures, zoom commands and props updates, state.scaleFactor
\* equals state.scale / state.scaleBase.
C16_Ratio ==
  pc # "crashed" => state.scaleFactor = Div(state.scale, state.scaleBase)

\* a topology change, taken after the view was zoomed, that refits the scale:
\* the ratio is kept against the base scale
C16_Witness ==
  /\ pc = "mounted"
  /\ PropsStep(last)
  /\ "topology" \in last.changed
  /\ events = MaxEvents
  /\ state.scaleFactor \notin {R(0), R(1)}
  /\ state.scale = Mul(state.scaleFactor, state.scaleBase)

\* C17 - Topology change discards the cache: after a props update in which
\* the topology reference changes, the cache holds exactly one entry per
\* layer of the new layer list, each extracted from the new topology, and
\* nothing extracted from the old topology - for every new layer list, an
\* empty one included.
C17_TopologyDiscards ==
  (PropsStep(last) /\ "topology" \in last.changed) =>
    /\ DOMAIN state.cache = LayerKeys(LayerArrays[props.layers])
    /\ \A k \in DOMAIN state.cache : state.cache[k].topology = props.topology

\* C18 - Bounds track the cache: between any two events, state.bounds equals
\* concatAndComputeGeoJSONBounds(state.cache), the bounds of the geometry
\* currently cached.
C18_BoundsTrackCache ==
  state.bounds = concatAndComputeGeoJSONBounds(state.cache)

\* the cache replaced by the two layers of the second topology, whose bounds
\* are larger than those of the first
C18_Witness ==
  /\ PropsStep(last)
  /\ "topology" \in last.changed
  /\ last.extracted = {<<"feature", "countries">>, <<"mesh", "borders">>}
  /\ state.bounds = <<<<2, 2>>, <<11, 20>>>>

\* C19 - Gesture transition: a gesture that reports (s, t) leaves state.scale
\* = s, state.translate = t, state.scaleFactor = s / scaleBase and the path
\* generator built from exactly (s, t), and leaves scaleBase, bounds, cache
\* and processedData as they were; hence, between any two events after
\* mount, the path generator in state is the one built from the current
\* state.scale and state.translate.
C19_GestureTransition ==
  [][ /\ last'.op = "gesture" =>
           /\ zoom' \in Gestures
           /\ state'.scale = zoom'.scale
           /\ state'.translate = zoom'.translate
           /\ state'.scaleFactor = Div(zoom'.scale, state.scaleBase)
           /\ state'.pathGenerator.scale = zoom'.scale
           /\ state'.pathGenerator.translate = zoom'.translate
           /\ state'.scaleBase = state.scaleBase
           /\ state'.bounds = state.bounds
           /\ state'.cache = state.cache
           /\ state'.processedData = state.processedData
      /\ pc' = "mounted" =>
           /\ state'.pathGenerator.scale = state'.scale
           /\ state'.pathGenerator.translate = state'.translate
    ]_vars

\* a gesture on a view that had been resized and whose layers had changed
C19_Witness ==
  /\ last.op = "gesture"
  /\ events = MaxEvents
  /\ state.scale = <<3, 1>>
  /\ state.translate = <<<<-5, 1>>, <<4, 1>>>>
  /\ state.pathGenerator = createPathGenerator(state.scale, state.translate)
  /\ props.width = 20
  /\ Cardinality(DOMAIN state.cache) = 2

\* C20 - Programmatic zoom keeps the visual centre: for every zoom-in or
\* zoom-out command, the geographic point at the pixel centre of the viewport
\* under the scale/translate before the command (there is one unless that
\* scale is zero or that translate not a number) is at the pixel centre under
\* the scale/translate after it.
C20_ZoomKeepsCenter ==
  [][ last'.op \in {"zoomIn", "zoomOut"} =>
        LET center == calcCenterPoint(props.width, props.height,
                                      zoom.scale, zoom.translate)
        IN  IsPoint(center) =>
              /\ project(zoom'.scale, zoom'.translate, center) = ViewCenter(props)
              /\ project(state'.scale, state'.translate, center) = ViewCenter(props)
              /\ project(state'.pathGenerator.scale, state'.pathGenerator.translate,
                         center) = ViewCenter(props)
    ]_vars

\* a zoom-out of a view that a gesture had panned and a resize had refitted
C20_Witness ==
  /\ last.op = "zoomOut"
  /\ events = MaxEvents
  /\ props.width = 20
  /\ state.scale # last.from
  /\ IsPoint(state.translate)
  /\ state.translate # calcTranslate(props.width, props.height, state.scale,
                                     state.bounds, Null)
  /\ IsPoint(calcCenterPoint(props.width, props.height, state.scale, state.translate))

\* C21 - Render never sees a missing cache entry: at every render, after any
\* sequence of props updates (topology, layers, width/height and data
\* changing alone or together), every visible feature or mesh layer of the
\* current layer list has an entry cache[type][name], and renderLayers never
\* throws on an undefined entry.
C21_RenderFindsEntries ==
  /\ pc = "crashed" => last.op = "propsThrew"
  /\ pc \in {"rendered", "mounted"} =>
       \A i \in DOMAIN LayerArrays[props.layers] :
         LET layer == LayerArrays[props.layers][i]
         IN  (layer.visible /\ layer.type \in {"feature", "mesh"}) =>
               LayerKey(layer) \in DOMAIN state.cache

\* the render after an update that changed topology, layers, viewport and
\* data together, with a feature and a mesh layer to draw
C21_Witness ==
  /\ pc = "mounted"
  /\ PropsStep(last)
  /\ last.changed = {"topology", "layers", "width", "height", "data"}
  /\ Len(LayerArrays[props.layers]) = 2
  /\ last.extracted = LayerKeys(LayerArrays[props.layers])
  /\ drawn # NothingDrawn

\* C22 - Unrelated props updates are inert: a props update in which
\* topology, layers, width, height and data all are the references they were
\* leaves the whole component state unchanged, writes neither scale nor
\* translate into the zoom behaviour and does not fire its zoom event.
C22_UnrelatedInert ==
  [][ (PropsStep(last') /\ last'.changed = {}) =>
        /\ state' = state
        /\ zoom' = zoom
        /\ ~last'.wrote
        /\ ~last'.fired
        /\ last'.extracted = {}
    ]_vars

\* such an update given to a view that was zoomed off the fit and whose base
\* scale a topology change had left stale
C22_Witness ==
  /\ pc = "mounted"
  /\ PropsStep(last)
  /\ last.changed = {}
  /\ ~last.fired
  /\ events = MaxEvents
  /\ state.scaleFactor \notin {R(0), R(1)}
  /\ state.scaleBase # calcScale(props.width, props.height, state.bounds)
====
